---- MODULE Spec2Model ----
(***************************************************************************)
(* A model of epic_manifest_parser: the chunk assembler of chunk.rs        *)
(* (FileManifest::save and its download tasks, the on-disk chunk cache)    *)
(* and the binary manifest decoder of manifest.rs (Manifest::new).         *)
(*                                                                         *)
(* Bytes are integers 0..255, byte buffers are sequences of bytes, and a   *)
(* buffer offset o of the source is index o + 1 of the sequence.           *)
(***************************************************************************)
EXTENDS Integers, Sequences, FiniteSets, TLC

(***************************************************************************)
(* Bounds of the model.                                                    *)
(***************************************************************************)
\* The longest chunk part list of the file that is saved.
MaxParts == 2

\* The most bytes that follow the length prefix of a string read on its own.
MaxTail == 3

\* The number of calls made on one EpicGamesClient.
MaxCalls == 3

(***************************************************************************)
(* Byte buffer helpers.                                                    *)
(***************************************************************************)
\* vec![0u8; n]
Zeros(n) == [i \in 1..n |-> 0]

\* &buf[from..to] of the source (0-based, end exclusive); callers check the range.
Slice(buf, from, to) == SubSeq(buf, from + 1, to)

\* The sum of s[lo..hi], by halves.
RECURSIVE SumRange(_, _, _)
SumRange(s, lo, hi) ==
    IF lo > hi THEN 0
    ELSE IF lo = hi THEN s[lo]
    ELSE LET mid == (lo + hi) \div 2
         IN  SumRange(s, lo, mid) + SumRange(s, mid + 1, hi)

SumSeq(s) == SumRange(s, 1, Len(s))

\* The concatenation of the buffers ss[lo..hi], by halves.
RECURSIVE ConcatRange(_, _, _)
ConcatRange(ss, lo, hi) ==
    IF lo > hi THEN <<>>
    ELSE IF lo = hi THEN ss[lo]
    ELSE LET mid == (lo + hi) \div 2
         IN  ConcatRange(ss, lo, mid) \o ConcatRange(ss, mid + 1, hi)

Concat(ss) == ConcatRange(ss, 1, Len(ss))

\* A 32 bit value as four little-endian bytes (two's complement: \div
\* rounds down and % is never negative).
I32Bytes(v) ==
    << v % 256, (v \div 256) % 256, (v \div 65536) % 256, (v \div 16777216) % 256 >>

\* Buf::get_i32_le at offset o; callers check that four bytes remain.
I32At(buf, o) ==
    buf[o + 1] + 256 * buf[o + 2] + 65536 * buf[o + 3]
        + 16777216 * (IF buf[o + 4] >= 128 THEN buf[o + 4] - 256 ELSE buf[o + 4])

(***************************************************************************)
(* zlib, as far as the program depends on it: a stream is a header byte,   *)
(* the deflated data and a trailing checksum, and inflating a stream that  *)
(* is not well formed fails.                                               *)
(***************************************************************************)
Adler(s) == (1 + SumSeq(s)) % 256

Deflate(s) == <<120>> \o s \o <<Adler(s)>>

\* miniz_oxide::inflate::decompress_to_vec_zlib
Inflate(z) ==
    IF Len(z) >= 2 /\ z[1] = 120
          /\ z[Len(z)] = Adler(SubSeq(z, 2, Len(z) - 1))
    THEN [ok |-> TRUE, data |-> SubSeq(z, 2, Len(z) - 1)]
    ELSE [ok |-> FALSE, data |-> <<>>]

(***************************************************************************)
(* chunk.rs: the chunk map, the CDN and the chunk file format.             *)
(***************************************************************************)
\* The GUIDs of the chunk table: the keys of ManifestContext.chunks. A file
\* part may also name GUID 3, which the chunk table does not hold.
ChunkGuids == {1, 2}

\* The decoded body of each chunk.
DecodedBody(g) == IF g = 1 THEN <<11, 12, 13>> ELSE <<21, 22>>

\* The chunk file the CDN serves: a header of 41 bytes with header_size at
\* offset 8 and the compression flag at offset 40, then the body. Chunk 2 is
\* served compressed.
ChunkFile(g) ==
    LET flag == IF g = 2 THEN 1 ELSE 0
        body == IF flag = 1 THEN Deflate(DecodedBody(g)) ELSE DecodedBody(g)
    IN  Zeros(8) \o I32Bytes(41) \o Zeros(28) \o <<flag>> \o body

\* download_chunk_result, from the fetched buffer to the decoded body.
\* st is "ok", "err" (an Err result) or "panic"; the task fails on both.
DecodeChunk(data) ==
    IF Len(data) < 12 THEN [st |-> "panic", body |-> <<>>]
    ELSE IF Len(data) < 41 THEN [st |-> "panic", body |-> <<>>]
    ELSE LET len == Len(data)
             header_size == I32At(data, 8)
             is_compressed == data[41] = 1
         IN  IF header_size < 0 THEN [st |-> "err", body |-> <<>>]
             ELSE IF header_size > len THEN [st |-> "panic", body |-> <<>>]
             ELSE LET compressed_data == Slice(data, header_size, len)
                  IN  IF is_compressed
                      THEN IF Inflate(compressed_data).ok
                           THEN [st |-> "ok", body |-> Inflate(compressed_data).data]
                           ELSE [st |-> "panic", body |-> <<>>]
                      ELSE [st |-> "ok", body |-> compressed_data]

(***************************************************************************)
(* chunk.rs: the state of one FileManifest::save.                          *)
(***************************************************************************)
VARIABLES
    chunk_parts,   \* FileManifest.chunk_parts: the parts of the file, in order
    size,          \* FileManifest.size, set by FileManifest::new
    cache_dir,     \* ManifestContext.cache_dir: "none", "ok" (a directory
                   \* that exists) or "missing" (configured, no such directory)
    fetchOk,       \* per chunk, whether HttpService::get of its uri succeeds
    cache0,        \* per chunk, the cache file as save starts
    cache,         \* per chunk, the file <cache_dir>/<file_name>: its bytes,
                   \* or Absent
    savePc,        \* save: "init", "recv", "ok" (returned Ok) or "panic"
    downloads,     \* the ChunkDownload list save builds
    result,        \* the output buffer of save
    chan,          \* the mpsc channel: messages sent and not yet received
    task           \* the spawned download tasks, one per download

saveVars == << chunk_parts, size, cache_dir, fetchOk, cache0, cache, savePc,
               downloads, result, chan, task >>

Absent == << -1 >>

\* The parts a file of the model is made of: in range, out of range (offset
\* + size beyond the body), negative, empty, and naming a missing chunk.
PartChoices ==
    { [guid |-> 1, offset |-> 0, size |-> 2], [guid |-> 1, offset |-> 1, size |-> 2],
      [guid |-> 2, offset |-> 0, size |-> 1], [guid |-> 2, offset |-> 1, size |-> 1],
      [guid |-> 1, offset |-> 2, size |-> 2], [guid |-> 1, offset |-> 0, size |-> 0],
      [guid |-> 1, offset |-> 0, size |-> -1], [guid |-> 2, offset |-> -1, size |-> 1],
      [guid |-> 3, offset |-> 0, size |-> 1] }

PartLists == UNION { [1..n -> PartChoices] : n \in 0..MaxParts }

\* FileManifest::new: size is the sum of the part sizes, a negative size
\* counting as 0 (unwrap_or_default).
FileManifestSize(parts) ==
    SumSeq([i \in 1..Len(parts) |-> IF parts[i].size < 0 THEN 0 ELSE parts[i].size])

\* The part lists ChunkDownload::new accepts: it unwraps the chunk lookup
\* and the conversions of offset and size to usize.
DownloadsBuildable(parts) ==
    \A i \in 1..Len(parts) :
        parts[i].guid \in ChunkGuids /\ parts[i].offset >= 0 /\ parts[i].size >= 0

\* A mutant of Position: the running sum is never advanced.
PositionNotAdvanced(parts, i) == 0

\* save: position, the running sum of the sizes of the parts before part i.
Position(parts, i) == SumSeq([j \in 1..(i - 1) |-> parts[j].size])

\* save: the ChunkDownload list. uri and file_name are those of the chunk,
\* which FileChunk::new derives from the GUID; the model names both by it.
NewDownloads(parts) ==
    [i \in 1..Len(parts) |->
        [uri |-> parts[i].guid, file_name |-> parts[i].guid,
         offset |-> parts[i].offset, size |-> parts[i].size,
         position |-> Position(parts, i)]]

\* A mutant of TotalSize: the size of the last download is left out.
TotalSizeWithoutLast(dl) == IF dl = <<>> THEN 0 ELSE dl[Len(dl)].position

\* save: total_size, the sum of the sizes of the downloads.
TotalSize(dl) == SumSeq([i \in 1..Len(dl) |-> dl[i].size])

\* save: block.copy_from_slice(data) with block = result[position..position+size].
CopyInto(res, position, data) ==
    [i \in 1..Len(res) |->
        IF position < i /\ i <= position + Len(data) THEN data[i - position] ELSE res[i]]

NewTask ==
    [pc |-> "check", body |-> <<>>, via |-> "none", fetched |-> FALSE,
     wrote |-> FALSE, writeFailed |-> FALSE, seenDone |-> {}]

Tasks == DOMAIN task

SaveInit ==
    /\ chunk_parts \in PartLists
    /\ size = FileManifestSize(chunk_parts)
    /\ cache_dir \in {"none", "ok", "missing"}
    /\ fetchOk \in [ChunkGuids -> BOOLEAN]
    /\ cache0 \in [ChunkGuids -> {Absent} \cup {DecodedBody(g) : g \in ChunkGuids}]
    /\ \A g \in ChunkGuids :
          /\ cache0[g] \in {Absent, DecodedBody(g)}
          /\ cache_dir # "ok" => cache0[g] = Absent
    /\ cache = cache0
    /\ savePc = "init"
    /\ downloads = <<>>
    /\ result = <<>>
    /\ chan = <<>>
    /\ task = <<>>

\* save, up to the receive loop: build the downloads (a panic of
\* ChunkDownload::new ends save), allocate the output, spawn one task each.
SaveStart ==
    /\ savePc = "init"
    /\ IF DownloadsBuildable(chunk_parts)
       THEN /\ downloads' = NewDownloads(chunk_parts)
            /\ result' = Zeros(TotalSize(downloads'))
            /\ task' = [i \in 1..Len(chunk_parts) |-> NewTask]
            /\ savePc' = "recv"
       ELSE /\ savePc' = "panic"
            /\ UNCHANGED << downloads, result, task >>
    /\ UNCHANGED << chunk_parts, size, cache_dir, fetchOk, cache0, cache, chan >>

\* save: one turn of the receive loop. The slice data[start..end] panics
\* when the received body is shorter than end; the receiver is then dropped.
SaveRecv ==
    /\ savePc = "recv"
    /\ chan # <<>>
    /\ LET download == Head(chan).download
           data == Head(chan).data
           start == download.offset
           end == start + download.size
       IN  IF end <= Len(data)
           THEN /\ result' = CopyInto(result, download.position, Slice(data, start, end))
                /\ chan' = Tail(chan)
                /\ savePc' = savePc
           ELSE /\ savePc' = "panic"
                /\ chan' = <<>>
                /\ result' = result
    /\ UNCHANGED << chunk_parts, size, cache_dir, fetchOk, cache0, cache, downloads, task >>

\* save: rx.recv() fails once every sender is dropped, that is once every
\* task has ended, and save returns Ok(result).
SaveReturn ==
    /\ savePc = "recv"
    /\ chan = <<>>
    /\ \A t \in Tasks : task[t].pc \in {"done", "failed"}
    /\ savePc' = "ok"
    /\ UNCHANGED << chunk_parts, size, cache_dir, fetchOk, cache0, cache, downloads,
                    result, chan, task >>

(***************************************************************************)
(* chunk.rs: download_chunk / download_chunk_result, one task per download.*)
(* A task that returns Err panics in download_chunk (unwrap): both end the *)
(* task without a send, pc = "failed".                                     *)
(***************************************************************************)
SaveFrame == UNCHANGED << chunk_parts, size, cache_dir, fetchOk, cache0, savePc,
                          downloads, result >>

\* A mutant of CacheHit: the cache file is never found.
CacheHitNever(t) == FALSE

\* path.as_path().exists(), when a cache directory is configured.
CacheHit(t) ==
    cache_dir = "ok" /\ cache[downloads[t].file_name] # Absent

\* The cache check that opens the task.
TaskCheck(t) ==
    /\ task[t].pc = "check"
    /\ task' = [task EXCEPT ![t].pc = IF CacheHit(t) THEN "read" ELSE "fetch",
                            ![t].via = IF CacheHit(t) THEN "cache" ELSE "net",
                            ![t].seenDone = {u \in Tasks : task[u].pc = "done"}]
    /\ UNCHANGED << cache, chan >>
    /\ SaveFrame

\* A mutant of TaskRead: the cached bytes are read and the task goes on to
\* fetch the chunk all the same.
TaskReadThenFetch(t) ==
    /\ task[t].pc = "read"
    /\ task' = [task EXCEPT ![t].pc = "fetch",
                            ![t].body = cache[downloads[t].file_name]]
    /\ UNCHANGED << cache, chan >>
    /\ UNCHANGED << chunk_parts, size, cache_dir, fetchOk, cache0, savePc,
                    downloads, result >>

\* std::fs::read(path) of the cache file found to exist.
TaskRead(t) ==
    /\ task[t].pc = "read"
    /\ task' = [task EXCEPT ![t].pc = "send",
                            ![t].body = cache[downloads[t].file_name]]
    /\ UNCHANGED << cache, chan >>
    /\ SaveFrame

\* context.http.get(uri) and the decoding of the fetched chunk file.
TaskFetch(t) ==
    /\ task[t].pc = "fetch"
    /\ LET decoded == DecodeChunk(ChunkFile(downloads[t].uri))
       IN  IF fetchOk[downloads[t].uri] /\ decoded.st = "ok"
           THEN task' = [task EXCEPT ![t].pc = IF cache_dir = "none" THEN "send" ELSE "create",
                                     ![t].fetched = TRUE,
                                     ![t].body = decoded.body]
           ELSE task' = [task EXCEPT ![t].pc = "failed", ![t].fetched = TRUE]
    /\ UNCHANGED << cache, chan >>
    /\ SaveFrame

\* std::fs::write(path, &_result), first half: the file is created, or
\* truncated if it exists; this fails when the directory does not exist.
TaskCreate(t) ==
    /\ task[t].pc = "create"
    /\ IF cache_dir = "ok"
       THEN /\ cache' = [cache EXCEPT ![downloads[t].file_name] = <<>>]
            /\ task' = [task EXCEPT ![t].pc = "write"]
       ELSE /\ cache' = cache
            /\ task' = [task EXCEPT ![t].pc = "failed", ![t].writeFailed = TRUE]
    /\ UNCHANGED chan
    /\ SaveFrame

\* std::fs::write(path, &_result), second half: the decoded body is written.
TaskWrite(t) ==
    /\ task[t].pc = "write"
    /\ cache' = [cache EXCEPT ![downloads[t].file_name] = task[t].body]
    /\ task' = [task EXCEPT ![t].pc = "send", ![t].wrote = TRUE]
    /\ UNCHANGED chan
    /\ SaveFrame

\* sender.send((download, data)): an Err once the receiver is dropped.
TaskSend(t) ==
    /\ task[t].pc = "send"
    /\ IF savePc = "panic"
       THEN /\ task' = [task EXCEPT ![t].pc = "failed"]
            /\ chan' = chan
       ELSE /\ task' = [task EXCEPT ![t].pc = "done"]
            /\ chan' = Append(chan, [download |-> downloads[t], data |-> task[t].body])
    /\ UNCHANGED cache
    /\ SaveFrame

SaveNext ==
    \/ SaveStart
    \/ SaveRecv
    \/ SaveReturn
    \/ \E t \in Tasks : TaskCheck(t)
    \/ \E t \in Tasks : TaskRead(t)
    \/ \E t \in Tasks : TaskFetch(t)
    \/ \E t \in Tasks : TaskCreate(t)
    \/ \E t \in Tasks : TaskWrite(t)
    \/ \E t \in Tasks : TaskSend(t)

(***************************************************************************)
(* manifest.rs: the byte-stream reader. A reader r is [st, pos, val, acc]: *)
(* st is "ok", "err" (the read returned Err) or "panic"; pos is the        *)
(* cursor; val is the value read; acc holds the values the decoder keeps   *)
(* in its locals, in the order read. A read from a reader that has failed  *)
(* changes nothing.                                                        *)
(***************************************************************************)
Reader(pos) == [st |-> "ok", pos |-> pos, val |-> 0, acc |-> <<>>]

Failed(r, st) == [st |-> st, pos |-> r.pos, val |-> 0, acc |-> r.acc]

Got(r, pos, val) == [st |-> "ok", pos |-> pos, val |-> val, acc |-> r.acc]

\* let x = <read>: the value read is kept in a local.
Keep(r) == IF r.st = "ok" THEN [r EXCEPT !.acc = Append(@, r.val)] ELSE r

\* Buf::remaining of Cursor<Vec<u8>>: len.saturating_sub(pos).
Remaining(d, pos) == IF pos >= Len(d) THEN 0 ELSE Len(d) - pos

\* Buf::get_u8: panics when no byte remains.
GetU8(d, r) ==
    IF r.st # "ok" THEN r
    ELSE IF Remaining(d, r.pos) < 1 THEN Failed(r, "panic")
    ELSE Got(r, r.pos + 1, d[r.pos + 1])

\* Buf::get_i32_le: panics when fewer than four bytes remain.
GetI32(d, r) ==
    IF r.st # "ok" THEN r
    ELSE IF Remaining(d, r.pos) < 4 THEN Failed(r, "panic")
    ELSE Got(r, r.pos + 4, I32At(d, r.pos))

\* Buf::get_u32_le / get_u64_le / FGuid::new: n bytes, kept as bytes (a value
\* of more than 31 bits is its little-endian bytes); panics when fewer remain.
GetBytes(d, r, n) ==
    IF r.st # "ok" THEN r
    ELSE IF Remaining(d, r.pos) < n THEN Failed(r, "panic")
    ELSE Got(r, r.pos + n, SubSeq(d, r.pos + 1, r.pos + n))

\* Read::read_exact: Err when fewer than n bytes remain.
ReadExact(d, r, n) ==
    IF r.st # "ok" THEN r
    ELSE IF Remaining(d, r.pos) < n THEN Failed(r, "err")
    ELSE Got(r, r.pos + n, SubSeq(d, r.pos + 1, r.pos + n))

\* &cursor.get_ref()[from..from + n] without moving the cursor: panics when
\* the range is not inside the buffer.
PeekBytes(d, r, from, n) ==
    IF r.st # "ok" THEN r
    ELSE IF from + n > Len(d) THEN Failed(r, "panic")
    ELSE Got(r, r.pos, SubSeq(d, from + 1, from + n))

\* Seek::seek(SeekFrom::Start(to)), to converted with u64::try_from(..)?:
\* Err for a negative target; a target past the end is accepted.
SeekStart(r, to) ==
    IF r.st # "ok" THEN r
    ELSE IF to < 0 THEN Failed(r, "err")
    ELSE Got(r, to, 0)

\* Seek::seek(SeekFrom::Current(by))?: Err when the target is negative.
SeekCurrent(r, by) ==
    IF r.st # "ok" THEN r
    ELSE IF r.pos + by < 0 THEN Failed(r, "err")
    ELSE Got(r, r.pos + by, 0)

\* bytes[i] exists and is in lo..hi.
Utf8Byte(bytes, i, lo, hi) == i <= Len(bytes) /\ bytes[i] >= lo /\ bytes[i] <= hi

\* bytes[i] exists and is a continuation byte.
Utf8Cont(bytes, i) == Utf8Byte(bytes, i, 128, 191)

\* The length of the well-formed UTF-8 sequence that starts at bytes[i]; 0
\* when none does.
Utf8SeqLen(bytes, i) ==
    IF bytes[i] < 128 THEN 1
    ELSE IF Utf8Byte(bytes, i, 194, 223) /\ Utf8Cont(bytes, i + 1) THEN 2
    ELSE IF /\ \/ bytes[i] = 224 /\ Utf8Byte(bytes, i + 1, 160, 191)
               \/ Utf8Byte(bytes, i, 225, 236) /\ Utf8Cont(bytes, i + 1)
               \/ bytes[i] = 237 /\ Utf8Byte(bytes, i + 1, 128, 159)
               \/ Utf8Byte(bytes, i, 238, 239) /\ Utf8Cont(bytes, i + 1)
            /\ Utf8Cont(bytes, i + 2)
    THEN 3
    ELSE IF /\ \/ bytes[i] = 240 /\ Utf8Byte(bytes, i + 1, 144, 191)
               \/ Utf8Byte(bytes, i, 241, 243) /\ Utf8Cont(bytes, i + 1)
               \/ bytes[i] = 244 /\ Utf8Byte(bytes, i + 1, 128, 143)
            /\ Utf8Cont(bytes, i + 2)
            /\ Utf8Cont(bytes, i + 3)
    THEN 4
    ELSE 0

\* bytes[i] belongs to a well-formed sequence: it starts one, or it is a
\* continuation byte of the sequence that starts at the nearest byte before
\* it that is no continuation byte.
Utf8At(bytes, i) ==
    IF Utf8Cont(bytes, i)
    THEN \E j \in 1..(i - 1) :
             /\ ~Utf8Cont(bytes, j)
             /\ \A k \in (j + 1)..i : Utf8Cont(bytes, k)
             /\ i - j < Utf8SeqLen(bytes, j)
    ELSE Utf8SeqLen(bytes, i) > 0

\* String::from_utf8(buffer) is Ok: the bytes are well-formed UTF-8. The
\* String then holds the same bytes.
Utf8Ok(bytes) == \A i \in 1..Len(bytes) : Utf8At(bytes, i)

\* read_fstring from the buffer read: the last byte, the terminator, is
\* dropped and the rest is converted with String::from_utf8(..)?.
FStringOfBuffer(buffer) ==
    IF buffer.st # "ok" THEN buffer
    ELSE IF Utf8Ok(SubSeq(buffer.val, 1, Len(buffer.val) - 1))
    THEN Got(buffer, buffer.pos, SubSeq(buffer.val, 1, Len(buffer.val) - 1))
    ELSE Failed(buffer, "err")

\* read_fstring from the length read. A string is the sequence of its bytes.
FStringOfLength(d, length) ==
    IF length.st # "ok" THEN length
    ELSE IF length.val = 0 THEN Got(length, length.pos, <<>>)
    ELSE IF length.val < 0
    THEN IF length.val = -2147483647 - 1 THEN Failed(length, "panic")
         \* -length * 2 overflows i32: a panic, or with overflow checks
         \* off a negative len that usize::try_from refuses; no string
         ELSE IF length.val < -1073741823 THEN Failed(length, "panic")
         ELSE IF Remaining(d, length.pos) < (-length.val) * 2 THEN Failed(length, "err")
         ELSE Failed(Got(length, length.pos + (-length.val) * 2, 0), "panic")
    ELSE FStringOfBuffer(ReadExact(d, length, length.val))

\* CursorExt::read_fstring.
read_fstring(d, r) == FStringOfLength(d, GetI32(d, r))

\* Result::unwrap: an Err becomes a panic.
Unwrap(r) == IF r.st = "err" THEN Failed(r, "panic") ELSE r

\* The closure |r| r.read_fstring().unwrap().
read_fstring_unwrap(d, r) == Unwrap(read_fstring(d, r))

\* usize::try_from(length)?: Err for a negative length.
TArrayLength(length) ==
    IF length.st = "ok" /\ length.val < 0 THEN Failed(length, "err") ELSE length

RECURSIVE FStringItems(_, _, _, _, _)
\* result.push(item), then the rest of the loop.
PushFString(d, item, length, unwrap, items) ==
    IF item.st # "ok" THEN item
    ELSE FStringItems(d, item, length - 1, unwrap, Append(items, item.val))

\* The loop of read_sized_tarray over strings, read with the closure above
\* (unwrap) or with read_fstring()?.
FStringItems(d, r, length, unwrap, items) ==
    IF r.st # "ok" THEN r
    ELSE IF length = 0 THEN Got(r, r.pos, items)
    ELSE PushFString(d, IF unwrap THEN read_fstring_unwrap(d, r) ELSE read_fstring(d, r),
                     length, unwrap, items)

\* CursorExt::read_sized_tarray of strings: length strings.
read_sized_tarray_fstring(d, r, length, unwrap) ==
    FStringItems(d, r, length, unwrap, <<>>)

\* read_tarray from the count read.
FStringsOfLength(d, length) == read_sized_tarray_fstring(d, length, length.val, TRUE)

\* CursorExt::read_tarray of strings: an i32 count (Err when negative), then
\* count strings.
read_tarray_fstring(d, r) == FStringsOfLength(d, TArrayLength(GetI32(d, r)))

RECURSIVE BytesItems(_, _, _, _, _)
\* result.push(item), then the rest of the loop.
PushBytes(d, item, length, width, items) ==
    IF item.st # "ok" THEN item
    ELSE BytesItems(d, item, length - 1, width, Append(items, item.val))

\* The loop of read_sized_tarray over items of width bytes.
BytesItems(d, r, length, width, items) ==
    IF r.st # "ok" THEN r
    ELSE IF length = 0 THEN Got(r, r.pos, items)
    ELSE PushBytes(d, GetBytes(d, r, width), length, width, items)

\* CursorExt::read_sized_tarray of fixed-width items (FGuid::new,
\* get_u64_le): length items of width bytes each.
read_sized_tarray_bytes(d, r, length, width) == BytesItems(d, r, length, width, <<>>)

(***************************************************************************)
(* manifest.rs: Manifest::new, the container and the four sections.        *)
(***************************************************************************)
MANIFEST_HEADER_MAGIC == 1153351692

EMANIFEST_STORAGE_FLAG_COMPRESSED == 1

EMANIFEST_STORAGE_FLAG_ENCRYPTED == 2

EMANIFEST_META_VERSION_ORIGINAL == 0

EMANIFEST_META_VERSION_SERIALIZES_BUILD_ID == 1

\* The digits of {:X} and hex::encode_upper.
HexDigit(n) ==
    << "0", "1", "2", "3", "4", "5", "6", "7", "8", "9", "A", "B", "C", "D", "E", "F" >>[n + 1]

\* hex::encode_upper(bytes): two digits a byte, in byte order.
HexUpper(bytes) ==
    [i \in 1..(2 * Len(bytes)) |->
        IF i % 2 = 1 THEN HexDigit(bytes[(i + 1) \div 2] \div 16)
                     ELSE HexDigit(bytes[i \div 2] % 16)]

\* format!("{:016X?}", val) of a u64 read little-endian: the sixteen digits
\* of the value, highest first, so the bytes in reverse order.
HexU64(le) == HexUpper([i \in 1..Len(le) |-> le[Len(le) + 1 - i]])

\* format!("{:X?}", data) of a byte slice: each byte as hex without padding.
HexDebug(bytes) ==
    [i \in 1..Len(bytes) |->
        IF bytes[i] < 16 THEN << HexDigit(bytes[i]) >>
        ELSE << HexDigit(bytes[i] \div 16), HexDigit(bytes[i] % 16) >>]

\* A map that keeps the first row of a key.
MapOfFirstRow(keys, vals) ==
    [k \in {keys[i] : i \in 1..Len(keys)} |->
        vals[CHOOSE i \in 1..Len(keys) :
                /\ keys[i] = k
                /\ \A j \in 1..Len(keys) : keys[j] = k => j >= i]]

\* HashMap::insert over the rows in order: the last row of a key wins.
MapOf(keys, vals) ==
    [k \in {keys[i] : i \in 1..Len(keys)} |->
        vals[CHOOSE i \in 1..Len(keys) :
                /\ keys[i] = k
                /\ \A j \in 1..Len(keys) : keys[j] = k => j <= i]]

\* The payload of the container: decompress_to_vec_zlib of
\* data[pos..pos + data_size_compressed] for the compressed flag, a panic for
\* the encrypted flag, and data[pos..data_size_compressed] for anything else.
ContainerPayload(data, pos, data_size_compressed, storage_flags) ==
    IF storage_flags = EMANIFEST_STORAGE_FLAG_COMPRESSED
    THEN IF data_size_compressed < 0 THEN [st |-> "err", payload |-> <<>>]
         ELSE IF pos + data_size_compressed > Len(data)
         THEN [st |-> "panic", payload |-> <<>>]
         ELSE LET inflated == Inflate(Slice(data, pos, pos + data_size_compressed))
              IN  IF inflated.ok THEN [st |-> "ok", payload |-> inflated.data]
                  ELSE [st |-> "panic", payload |-> <<>>]
    ELSE IF storage_flags = EMANIFEST_STORAGE_FLAG_ENCRYPTED
    THEN [st |-> "panic", payload |-> <<>>]
    ELSE IF data_size_compressed < 0 THEN [st |-> "err", payload |-> <<>>]
         ELSE IF pos > data_size_compressed \/ data_size_compressed > Len(data)
         THEN [st |-> "panic", payload |-> <<>>]
         ELSE [st |-> "ok", payload |-> Slice(data, pos, data_size_compressed)]

\* Manifest::new up to the inner payload: the magic (an assert!), the header
\* fields, the seek to header_size and the payload.
Container(data) ==
    LET magic == GetI32(data, Reader(0))
        header_size == GetI32(data, magic)
        data_size_uncompressed == GetI32(data, header_size)
        data_size_compressed == GetI32(data, data_size_uncompressed)
        hashes == SeekCurrent(data_size_compressed, 20)
        storage_flags == GetU8(data, hashes)
        version == GetI32(data, storage_flags)
        seek == SeekStart(version, header_size.val)
    IN  IF magic.st # "ok" THEN [st |-> "panic", payload |-> <<>>]
        ELSE IF magic.val # MANIFEST_HEADER_MAGIC THEN [st |-> "panic", payload |-> <<>>]
        ELSE IF seek.st # "ok" THEN [st |-> seek.st, payload |-> <<>>]
        ELSE ContainerPayload(data, seek.pos, data_size_compressed.val, storage_flags.val)

\* A mutant of SectionEnd: the seek leaves out the start of the section.
SectionEndFromZero(r, start_pos, data_size) ==
    IF r.st # "ok" THEN r
    ELSE IF data_size < 0 THEN Failed(r, "err")
    ELSE SeekStart(r, data_size)

\* cursor.seek(SeekFrom::Start(start_pos + u64::try_from(data_size)?))?, the
\* seek that closes sections 1, 2 and 3.
SectionEnd(r, start_pos, data_size) ==
    IF r.st # "ok" THEN r
    ELSE IF data_size < 0 THEN Failed(r, "err")
    ELSE SeekStart(r, start_pos + data_size)

\* data_size of the section whose reads are kept in body (its first read).
DataSize(body) == IF Len(body.acc) >= 1 THEN body.acc[1] ELSE 0

\* data_version of the section (its second read).
DataVersion(body) == IF Len(body.acc) >= 2 THEN body.acc[2] ELSE 0

\* count of the section (its third read).
Count(body) == IF Len(body.acc) >= 3 THEN body.acc[3] ELSE 0

\* What a section leaves: the items (st), the cursor after it (pos), where
\* it started, the size it declared, the cursor as the body decoder left it
\* (body_end) and the values decoded.
Section(start_pos, body, end, val) ==
    [st |-> end.st, pos |-> end.pos, start_pos |-> start_pos,
     data_size |-> DataSize(body), body_end |-> body.pos,
     val |-> IF end.st = "ok" THEN val ELSE <<>>]

\* let _feature_level = cursor.get_i32()
FeatureLevel(d, r) == GetBytes(d, r, 4)

\* if data_version >= SERIALIZES_BUILD_ID { build_id = cursor.read_fstring()? }
BuildId(d, r) ==
    IF r.st # "ok" THEN r
    ELSE IF DataVersion(r) >= EMANIFEST_META_VERSION_SERIALIZES_BUILD_ID
    THEN read_fstring(d, r)
    ELSE Got(r, r.pos, <<>>)

\* The body of section 1 read at r: data_size, data_version, and (the
\* version being >= ORIGINAL always) the fields of the build meta.
MetaBody(d, r) ==
    LET data_size == Keep(GetI32(d, r))
        data_version == Keep(GetU8(d, data_size))
        feature_level == Keep(FeatureLevel(d, data_version))
        is_file_data == Keep(GetU8(d, feature_level))
        app_id == Keep(GetI32(d, is_file_data))
        app_name == Keep(read_fstring(d, app_id))
        build_version == Keep(read_fstring(d, app_name))
        launch_exe == Keep(read_fstring(d, build_version))
        launch_command == Keep(read_fstring(d, launch_exe))
        prereq_ids == Keep(read_tarray_fstring(d, launch_command))
        prereq_name == Keep(read_fstring(d, prereq_ids))
        prereq_path == Keep(read_fstring(d, prereq_name))
        prereq_args == Keep(read_fstring(d, prereq_path))
    IN  Keep(BuildId(d, prereq_args))

\* The locals of section 1, as kept by MetaBody.
MetaVal(body) ==
    IF body.st # "ok" THEN <<>>
    ELSE [app_id |-> body.acc[5], app_name |-> body.acc[6],
          build_version |-> body.acc[7], launch_exe |-> body.acc[8],
          launch_command |-> body.acc[9], prereq_ids |-> body.acc[10],
          prereq_name |-> body.acc[11], prereq_path |-> body.acc[12],
          prereq_args |-> body.acc[13], build_id |-> body.acc[14]]

MetaSectionOf(start_pos, body) ==
    Section(start_pos, body, SectionEnd(body, start_pos, DataSize(body)), MetaVal(body))

\* Section 1, the build meta, read at r.pos, and the seek that closes it.
MetaSection(d, r) == MetaSectionOf(r.pos, MetaBody(d, Reader(r.pos)))

\* cursor.read_sized_tarray(FGuid::new, count_size)?
Guids(d, r) == read_sized_tarray_bytes(d, r, Count(r), 16)

\* cursor.read_sized_tarray(ByteCursor::get_u64_le, count_size)?
U64s(d, r) == read_sized_tarray_bytes(d, r, Count(r), 8)

\* &cursor.get_ref()[offset..offset + 20] for every row, the cursor unmoved.
Shas(d, r) ==
    IF r.st # "ok" THEN r
    ELSE IF Count(r) > 0 THEN PeekBytes(d, r, r.pos, Count(r) * 20)
    ELSE Got(r, r.pos, <<>>)

\* cursor.seek(SeekFrom::Current((count * 20).into()))?
SkipShas(r) == SeekCurrent(r, Count(r) * 20)

\* cursor_ref[group_number_offset + i] for every row, the cursor unmoved.
Groups(d, r) ==
    IF r.st # "ok" THEN r
    ELSE IF Count(r) > 0 THEN PeekBytes(d, r, r.pos, Count(r))
    ELSE Got(r, r.pos, <<>>)

\* cursor.seek(Current(count))?; cursor.seek(Current(count * 4))?
SkipGroups(r) == SeekCurrent(SeekCurrent(r, Count(r)), Count(r) * 4)

\* The body of section 2 read at r: data_size, data_version, count, then
\* the columns guid, rolling hash, sha1, data group, a skipped column of
\* count * 4 bytes, file size.
ChunkBody(d, r) ==
    LET data_size == Keep(GetI32(d, r))
        data_version == Keep(GetU8(d, data_size))
        count == Keep(TArrayLength(GetI32(d, data_version)))
        guids == Keep(Guids(d, count))
        hash_values == Keep(U64s(d, guids))
        shas == Keep(Shas(d, hash_values))
        groups == Keep(Groups(d, SkipShas(shas)))
    IN  Keep(U64s(d, SkipGroups(groups)))

\* The four maps of section 2, filled row by row.
ChunkVal(body) ==
    IF body.st # "ok" THEN <<>>
    ELSE [chunk_hashes |->
              MapOf(body.acc[4], [i \in 1..Count(body) |-> HexU64(body.acc[5][i])]),
          chunk_shas |->
              MapOf(body.acc[4],
                    [i \in 1..Count(body) |->
                        HexUpper(SubSeq(body.acc[6], 20 * (i - 1) + 1, 20 * i))]),
          data_groups |->
              MapOf(body.acc[4], [i \in 1..Count(body) |-> body.acc[7][i]]),
          chunk_filesizes |->
              MapOf(body.acc[4], [i \in 1..Count(body) |-> body.acc[8][i]])]

ChunkSectionOf(start_pos, body) ==
    Section(start_pos, body, SectionEnd(body, start_pos, DataSize(body)), ChunkVal(body))

\* Section 2, the chunk table, read at r.pos, and the seek that closes it.
ChunkSection(d, r) == ChunkSectionOf(r.pos, ChunkBody(d, Reader(r.pos)))

\* let len = cursor.get_i32_le(); cursor.seek(Current(i64::try_from(len)?))?
SkipSymlink(len) == SeekCurrent(len, len.val)

\* The symlink target column: count times an i32 length and a seek over it.
RECURSIVE SkipSymlinks(_, _, _)
SkipSymlinks(d, r, count) ==
    IF r.st # "ok" \/ count = 0 THEN r
    ELSE SkipSymlinks(d, SkipSymlink(GetI32(d, r)), count - 1)

\* The FileChunkPart of the three values kept since r.
ChunkPartOf(r, last) ==
    IF last.st # "ok" THEN Failed(r, last.st)
    ELSE Got(r, last.pos,
             [guid |-> last.acc[Len(last.acc) - 2],
              offset |-> last.acc[Len(last.acc) - 1],
              size |-> last.acc[Len(last.acc)]])

\* FileChunkPart::new: four skipped bytes, the guid, offset and size.
ReadChunkPart(d, r) ==
    ChunkPartOf(r, Keep(GetI32(d, Keep(GetI32(d, Keep(GetBytes(d, SeekCurrent(r, 4), 16)))))))

RECURSIVE ReadChunkParts(_, _, _, _)
\* result.push(item), then the rest of the loop.
PushChunkPart(d, item, length, items) ==
    IF item.st # "ok" THEN item
    ELSE ReadChunkParts(d, item, length - 1, Append(items, item.val))

\* The loop of read_sized_tarray over FileChunkPart::new.
ReadChunkParts(d, r, length, items) ==
    IF r.st # "ok" THEN r
    ELSE IF length = 0 THEN Got(r, r.pos, items)
    ELSE PushChunkPart(d, ReadChunkPart(d, r), length, items)

\* read_tarray from the count read.
ChunkPartsOfLength(d, length) == ReadChunkParts(d, length, length.val, <<>>)

\* cursor.read_tarray(FileChunkPart::new)?
read_tarray_chunk_part(d, r) == ChunkPartsOfLength(d, TArrayLength(GetI32(d, r)))

RECURSIVE ReadPerFile(_, _, _, _, _)
\* file.set_install_tags / file.set_chunk_parts, then the rest of the loop.
SetPerFile(d, item, count, which, items) ==
    IF item.st # "ok" THEN item
    ELSE ReadPerFile(d, item, count - 1, which, Append(items, item.val))

\* One array per file, read with the given array reader (1: install tags,
\* 2: chunk parts).
ReadPerFile(d, r, count, which, items) ==
    IF r.st # "ok" THEN r
    ELSE IF count = 0 THEN Got(r, r.pos, items)
    ELSE SetPerFile(d, IF which = 1 THEN read_tarray_fstring(d, r)
                       ELSE read_tarray_chunk_part(d, r),
                    count, which, items)

\* for _ in 0..count { let file_name = cursor.read_fstring()?; .. }
FileNames(d, r) == read_sized_tarray_fstring(d, r, Count(r), FALSE)

\* cursor.seek(Current(count * 20))?; cursor.seek(Current(count))?
SkipFileList(r) == SeekCurrent(SeekCurrent(r, Count(r) * 20), Count(r))

InstallTags(d, r) == ReadPerFile(d, r, Count(r), 1, <<>>)

ChunkParts(d, r) == ReadPerFile(d, r, Count(r), 2, <<>>)

\* The body of section 3 read at r: data_size, data_version, count, then
\* the columns file name, symlink target (skipped), sha1, a skipped column
\* of count bytes, install tags, chunk parts.
FileBody(d, r) ==
    LET data_size == Keep(GetI32(d, r))
        data_version == Keep(GetU8(d, data_size))
        count == Keep(TArrayLength(GetI32(d, data_version)))
        names == Keep(FileNames(d, count))
        shas == Keep(Shas(d, SkipSymlinks(d, names, Count(names))))
        install_tags == Keep(InstallTags(d, SkipFileList(shas)))
    IN  Keep(ChunkParts(d, install_tags))

\* The file manifest builders of section 3.
FileVal(body) ==
    IF body.st # "ok" THEN <<>>
    ELSE [i \in 1..Count(body) |->
             [name |-> body.acc[4][i],
              hash |-> HexDebug(SubSeq(body.acc[5], 20 * (i - 1) + 1, 20 * i)),
              install_tags |-> body.acc[6][i],
              chunk_parts |-> body.acc[7][i]]]

FileSectionOf(start_pos, body) ==
    Section(start_pos, body, SectionEnd(body, start_pos, DataSize(body)), FileVal(body))

\* Section 3, the file table, read at r.pos, and the seek that closes it.
FileSection(d, r) == FileSectionOf(r.pos, FileBody(d, Reader(r.pos)))

\* if data_version > ORIGINAL { count; keys; values }
CustomFields(d, r) ==
    IF r.st # "ok" THEN r
    ELSE IF ~(DataVersion(r) > EMANIFEST_META_VERSION_ORIGINAL) THEN r
    ELSE Keep(read_tarray_fstring(d,
             Keep(read_tarray_fstring(d, Keep(TArrayLength(GetI32(d, r)))))))

\* The body of section 4 read at r: data_size, data_version, and for a
\* version above ORIGINAL a count and two arrays with their own counts.
CustomBody(d, r) == CustomFields(d, Keep(GetU8(d, Keep(GetI32(d, r)))))

\* keys[i], values[i] for i in 0..count: a panic when an array is shorter.
CustomSt(body) ==
    IF body.st # "ok" THEN body.st
    ELSE IF ~(DataVersion(body) > EMANIFEST_META_VERSION_ORIGINAL) THEN "ok"
    ELSE IF Count(body) > Len(body.acc[4]) \/ Count(body) > Len(body.acc[5]) THEN "panic"
    ELSE "ok"

\* custom_fields: the pairs up to count, the last of a key winning.
CustomVal(body) ==
    IF CustomSt(body) # "ok" THEN <<>>
    ELSE IF ~(DataVersion(body) > EMANIFEST_META_VERSION_ORIGINAL) THEN <<>>
    ELSE MapOf(SubSeq(body.acc[4], 1, Count(body)), SubSeq(body.acc[5], 1, Count(body)))

CustomSectionOf(start_pos, body) ==
    [st |-> CustomSt(body), pos |-> body.pos, start_pos |-> start_pos,
     data_size |-> DataSize(body), body_end |-> body.pos, val |-> CustomVal(body)]

\* Section 4, the custom fields, read at r.pos; no seek closes it.
CustomSection(d, r) == CustomSectionOf(r.pos, CustomBody(d, Reader(r.pos)))

\* The join of the chunk table into FileChunk records, one per key of
\* chunk_filesizes; the three other maps are unwrapped at that key.
JoinChunks(t) ==
    IF \E g \in DOMAIN t.chunk_filesizes :
           \/ g \notin DOMAIN t.chunk_hashes
           \/ g \notin DOMAIN t.chunk_shas
           \/ g \notin DOMAIN t.data_groups
    THEN [st |-> "panic", chunks |-> <<>>]
    ELSE [st |-> "ok",
          chunks |-> [g \in DOMAIN t.chunk_filesizes |->
                         [guid |-> g, size |-> t.chunk_filesizes[g],
                          hash |-> t.chunk_hashes[g], sha |-> t.chunk_shas[g],
                          data_group |-> t.data_groups[g]]]]

\* FileManifestBuilder::build for every file of the file table.
BuildFiles(files) ==
    [i \in 1..Len(files) |->
        [name |-> files[i].name, hash |-> files[i].hash,
         install_tags |-> files[i].install_tags,
         chunk_parts |-> files[i].chunk_parts,
         size |-> FileManifestSize(files[i].chunk_parts)]]

\* What Manifest::new returns: Err or a panic (st), or Ok(manifest).
NoManifest(st) == [st |-> st, manifest |-> <<>>]

ManifestOf(meta, tables, files, custom, joined) ==
    IF custom.st # "ok" THEN NoManifest(custom.st)
    ELSE IF joined.st # "ok" THEN NoManifest(joined.st)
    ELSE [st |-> "ok",
          manifest |-> [meta |-> meta.val, tables |-> tables.val,
                        files |-> files.val, custom_fields |-> custom.val,
                        chunks |-> joined.chunks,
                        file_manifests |-> BuildFiles(files.val)]]

AfterFiles(p, meta, tables, files) ==
    IF files.st # "ok" THEN NoManifest(files.st)
    ELSE ManifestOf(meta, tables, files, CustomSection(p, Reader(files.pos)),
                    JoinChunks(tables.val))

AfterChunks(p, meta, tables) ==
    IF tables.st # "ok" THEN NoManifest(tables.st)
    ELSE AfterFiles(p, meta, tables, FileSection(p, Reader(tables.pos)))

AfterMeta(p, meta) ==
    IF meta.st # "ok" THEN NoManifest(meta.st)
    ELSE AfterChunks(p, meta, ChunkSection(p, Reader(meta.pos)))

AfterContainer(c) ==
    IF c.st # "ok" THEN NoManifest(c.st)
    ELSE AfterMeta(c.payload, MetaSection(c.payload, Reader(0)))

\* Manifest::new as a function of its input.
ManifestNew(d) == AfterContainer(Container(d))

(***************************************************************************)
(* manifest.rs: the manifests the decoder is run on, written out in the    *)
(* wire format that Manifest::new reads.                                   *)
(***************************************************************************)
\* An FString: the length with the terminator, the bytes, a NUL.
EncFString(str) ==
    IF str = <<>> THEN I32Bytes(0) ELSE I32Bytes(Len(str) + 1) \o str \o <<0>>

\* A TArray of FStrings: the count, then the strings.
EncFStrings(strs) ==
    I32Bytes(Len(strs)) \o Concat([i \in 1..Len(strs) |-> EncFString(strs[i])])

\* A section: data_size (header, body and pad trailing bytes), version, body.
EncSection(version, body, pad) ==
    I32Bytes(5 + Len(body) + pad) \o <<version>> \o body \o [i \in 1..pad |-> 9]

\* The build meta. With build_id_bytes the body ends with a build id, which
\* a version 0 decoder leaves unread; without, a version >= 1 decoder reads
\* its build id beyond the declared end of the section.
EncMeta(m) ==
    EncSection(m.version,
               <<0, 0, 0, 18, 0>> \o I32Bytes(7) \o EncFString(<<97, 112, 112>>)
                   \o EncFString(<<118>>) \o EncFString(<<>>) \o EncFString(<<>>)
                   \o EncFStrings(<< <<112>> >>) \o EncFString(<<>>)
                   \o EncFString(<<>>) \o EncFString(<<>>)
                   \o (IF m.build_id_bytes THEN EncFString(<<105, 100>>) ELSE <<>>),
               m.pad)

\* The 16 bytes of the GUID numbered g.
GuidBytes(g) == <<g>> \o Zeros(15)

\* The rolling hash (u64, little-endian), the SHA-1, the data group and the
\* file size (u64, little-endian) of row i of the chunk table.
RowHash(i) == <<16 * i + 1, 35, 69, 103, 9, 10, 12, 1>>

RowSha(i) == [k \in 1..20 |-> 10 * i + k]

RowGroup(i) == 99 + i

RowFileSize(i) == <<i, 4, 0, 0, 0, 0, 0, 0>>

\* The chunk table with one row per element of rows (a GUID number each);
\* the values of a row depend on its index, so that repeated GUIDs differ.
EncChunks(c) ==
    LET n == Len(c.rows)
    IN  EncSection(0,
                   I32Bytes(n)
                       \o Concat([i \in 1..n |-> GuidBytes(c.rows[i])])
                       \o Concat([i \in 1..n |-> RowHash(i)])
                       \o Concat([i \in 1..n |-> RowSha(i)])
                       \o [i \in 1..n |-> RowGroup(i)]
                       \o Zeros(4 * n)
                       \o Concat([i \in 1..n |-> RowFileSize(i)]),
                   c.pad)

\* One chunk part record: the record size, the guid, offset and size.
EncPart(part) ==
    I32Bytes(28) \o GuidBytes(part.guid) \o I32Bytes(part.offset) \o I32Bytes(part.size)

\* The file table: one file per element of files (its part list).
EncFiles(files) ==
    LET n == Len(files)
    IN  EncSection(0,
                   I32Bytes(n)
                       \o Concat([i \in 1..n |-> EncFString(<<102, 48 + i>>)])
                       \o Concat([i \in 1..n |-> EncFString(<<>>)])
                       \o Concat([i \in 1..n |-> [k \in 1..20 |-> 20 * i + k]])
                       \o Zeros(n)
                       \o Concat([i \in 1..n |-> EncFStrings(<< <<116>> >>)])
                       \o Concat([i \in 1..n |->
                                     I32Bytes(Len(files[i]))
                                         \o Concat([k \in 1..Len(files[i]) |->
                                                       EncPart(files[i][k])])]),
                   0)

\* The custom fields: version 0 (not read), or version 1 with the pairs.
EncCustom(c) ==
    EncSection(c.version,
               I32Bytes(c.count) \o EncFStrings([i \in 1..c.count |-> <<107, 48 + i>>])
                   \o EncFStrings([i \in 1..c.count |-> <<120, 48 + i>>]),
               0)

\* The four sections of a manifest.
EncSections(p) ==
    EncMeta(p.meta) \o EncChunks(p.chunks) \o EncFiles(p.files) \o EncCustom(p.custom)

\* The container around the sections: the header of header_size bytes, then
\* the sections, zlib-compressed for storage flag 1. compressed_size is the
\* length of the stored payload ("length"), or its end offset ("end").
EncManifest(p) ==
    LET stored == IF p.storage_flags = 1 THEN Deflate(EncSections(p)) ELSE EncSections(p)
        compressed_size == IF p.size_is = "length" THEN Len(stored)
                           ELSE p.header_size + Len(stored)
    IN  (IF p.magic_ok THEN I32Bytes(MANIFEST_HEADER_MAGIC) ELSE <<239, 190, 173, 222>>)
            \o I32Bytes(p.header_size) \o I32Bytes(Len(EncSections(p)))
            \o I32Bytes(compressed_size) \o Zeros(20) \o <<p.storage_flags>>
            \o I32Bytes(18) \o Zeros(p.header_size - 41) \o stored

MetaChoices ==
    [version : {0, 1, 2}, build_id_bytes : BOOLEAN, pad : {0, 3}]

ChunkChoices ==
    [rows : {<<>>, <<1>>, <<1, 2>>, <<1, 1>>}, pad : {0, 2}]

FileChoices ==
    { <<>>,
      << <<>> >>,
      << <<[guid |-> 1, offset |-> 0, size |-> 2]>> >>,
      << <<[guid |-> 1, offset |-> 1, size |-> 2], [guid |-> 3, offset |-> 0, size |-> 1]>> >> }

CustomChoices == { [version |-> 0, count |-> 0], [version |-> 1, count |-> 0],
                   [version |-> 1, count |-> 2] }

ManifestChoices ==
    [meta : MetaChoices, chunks : ChunkChoices, files : FileChoices,
     custom : CustomChoices, magic_ok : {TRUE}, storage_flags : {0, 1, 2, 3},
     header_size : {41, 44}, size_is : {"length", "end"}]
    \cup
    [meta : {[version |-> 0, build_id_bytes |-> FALSE, pad |-> 0]},
     chunks : {[rows |-> <<>>, pad |-> 0]}, files : {<<>>},
     custom : {[version |-> 1, count |-> 0]}, magic_ok : {FALSE},
     storage_flags : {0, 1}, header_size : {41}, size_is : {"length"}]

(***************************************************************************)
(* manifest.rs: the state of one Manifest::new.                            *)
(***************************************************************************)
VARIABLES
    params,        \* the choices the input was written from
    data,          \* the bytes handed to Manifest::new
    mpc,           \* "container", "meta", "chunks", "files", "custom", then
                   \* "done" (Ok(manifest)), "err" (Err) or "panic"
    payload,       \* the inner payload, the buffer of the second cursor
    cursor,        \* the position of the cursor in the payload
    sections,      \* per section read so far: start_pos, data_size, and
                   \* body_end, the cursor as the body decoder left it
    manifest       \* the fields decoded so far

manifestVars == << params, data, mpc, payload, cursor, sections, manifest >>

EmptyManifest ==
    [meta |-> <<>>, tables |-> <<>>, files |-> <<>>, custom_fields |-> <<>>,
     chunks |-> <<>>, file_manifests |-> <<>>]

ManifestInit ==
    /\ params \in ManifestChoices
    /\ data = EncManifest(params)
    /\ mpc = "container"
    /\ payload = <<>>
    /\ cursor = 0
    /\ sections = <<>>
    /\ manifest = EmptyManifest

\* Manifest::new, the container: lines up to the inner payload.
Contained(c) ==
    /\ payload' = c.payload
    /\ mpc' = IF c.st = "ok" THEN "meta" ELSE c.st

DecodeContainer ==
    /\ mpc = "container"
    /\ Contained(Container(data))
    /\ UNCHANGED << params, data, cursor, sections, manifest >>

SectionRecord(sec) ==
    [start_pos |-> sec.start_pos, data_size |-> sec.data_size, body_end |-> sec.body_end]

\* The cursor and the result after the section sec; then the next section.
Sectioned(sec, then) ==
    /\ cursor' = sec.pos
    /\ sections' = Append(sections, SectionRecord(sec))
    /\ mpc' = IF sec.st = "ok" THEN then ELSE sec.st

DecodedMeta(sec) ==
    /\ Sectioned(sec, "chunks")
    /\ manifest' = [manifest EXCEPT !.meta = sec.val]

\* Manifest::new, section 1 and the seek to its declared end.
DecodeMeta ==
    /\ mpc = "meta"
    /\ DecodedMeta(MetaSection(payload, Reader(cursor)))
    /\ UNCHANGED << params, data, payload >>

DecodedChunks(sec) ==
    /\ Sectioned(sec, "files")
    /\ manifest' = [manifest EXCEPT !.tables = sec.val]

\* Manifest::new, section 2 and the seek to its declared end.
DecodeChunks ==
    /\ mpc = "chunks"
    /\ DecodedChunks(ChunkSection(payload, Reader(cursor)))
    /\ UNCHANGED << params, data, payload >>

DecodedFiles(sec) ==
    /\ Sectioned(sec, "custom")
    /\ manifest' = [manifest EXCEPT !.files = sec.val]

\* Manifest::new, section 3 and the seek to its declared end.
DecodeFiles ==
    /\ mpc = "files"
    /\ DecodedFiles(FileSection(payload, Reader(cursor)))
    /\ UNCHANGED << params, data, payload >>

DecodedCustom(sec, joined) ==
    /\ cursor' = sec.pos
    /\ sections' = Append(sections, SectionRecord(sec))
    /\ IF sec.st # "ok"
       THEN /\ mpc' = sec.st
            /\ manifest' = manifest
       ELSE IF joined.st # "ok"
       THEN /\ mpc' = joined.st
            /\ manifest' = [manifest EXCEPT !.custom_fields = sec.val]
       ELSE /\ mpc' = "done"
            /\ manifest' = [manifest EXCEPT
                               !.custom_fields = sec.val,
                               !.chunks = joined.chunks,
                               !.file_manifests = BuildFiles(manifest.files)]

\* Manifest::new, section 4, the join of the chunk table and the build of
\* the file manifests: Ok(manifest).
DecodeCustom ==
    /\ mpc = "custom"
    /\ DecodedCustom(CustomSection(payload, Reader(cursor)), JoinChunks(manifest.tables))
    /\ UNCHANGED << params, data, payload >>

ManifestNext ==
    \/ DecodeContainer
    \/ DecodeMeta
    \/ DecodeChunks
    \/ DecodeFiles
    \/ DecodeCustom

\* No save is running.
SaveIdle ==
    /\ chunk_parts = <<>>
    /\ size = 0
    /\ cache_dir = "none"
    /\ fetchOk = [g \in ChunkGuids |-> TRUE]
    /\ cache0 = [g \in ChunkGuids |-> Absent]
    /\ cache = cache0
    /\ savePc = "idle"
    /\ downloads = <<>>
    /\ result = <<>>
    /\ chan = <<>>
    /\ task = <<>>

\* No manifest is being decoded.
ManifestIdle ==
    /\ params = <<>>
    /\ data = <<>>
    /\ mpc = "idle"
    /\ payload = <<>>
    /\ cursor = 0
    /\ sections = <<>>
    /\ manifest = EmptyManifest

(***************************************************************************)
(* One call of a function of the library on an input: call is the function *)
(* and its arguments, ret what it returned.                                *)
(***************************************************************************)
VARIABLES call, ret

callVars == << call, ret >>

\* No call is made.
CallIdle ==
    /\ call = [fn |-> "none"]
    /\ ret = [st |-> "none"]

\* The bytes that follow the length prefix of a string: up to MaxTail bytes,
\* among them a NUL, a letter, and a lead and a continuation byte of UTF-8.
FStringTails ==
    UNION { [1..n -> {0, 65, 169, 195}] : n \in 0..MaxTail }

\* The length prefixes: zero, positive, negative, and i32::MIN.
FStringLengths == {0, 1, 2, 3, 4, -1, -2, -2147483647 - 1}

\* A buffer with the cursor at pos, a length prefix there and a tail.
FStringCalls ==
    { [fn |-> "read_fstring", d |-> [i \in 1..pos |-> 7] \o I32Bytes(length) \o tail,
       pos |-> pos]
        : pos \in {0, 2}, length \in FStringLengths, tail \in FStringTails }

FStringInit ==
    /\ call \in FStringCalls
    /\ ret = [st |-> "none"]

\* cursor.read_fstring()
CallReadFString ==
    /\ call.fn = "read_fstring"
    /\ ret.st = "none"
    /\ ret' = read_fstring(call.d, Reader(call.pos))
    /\ UNCHANGED call

(***************************************************************************)
(* chunk.rs: FileChunk::new. Strings are sequences of characters.          *)
(***************************************************************************)
\* The digits of n in the given base, highest first, without padding.
RECURSIVE Digits(_, _)
Digits(n, base) ==
    IF n < base THEN << HexDigit(n) >>
    ELSE Digits(n \div base, base) \o << HexDigit(n % base) >>

\* Without the minimum width of the format specification.
ZeroPadNever(s, width) == s

\* The 0N of a format specification: zeros in front up to a minimum width;
\* a longer text is left as it is.
ZeroPad(s, width) ==
    IF Len(s) >= width THEN s ELSE [i \in 1..(width - Len(s)) |-> "0"] \o s

\* impl Display for FGuid: {:08X} of each of the four words.
FGuidDisplay(guid) ==
    ZeroPad(Digits(guid.a, 16), 8) \o ZeroPad(Digits(guid.b, 16), 8)
        \o ZeroPad(Digits(guid.c, 16), 8) \o ZeroPad(Digits(guid.d, 16), 8)

\* format!("{}_{}.chunk", hash, guid)
ChunkFileName(hash, guid) ==
    hash \o << "_" >> \o FGuidDisplay(guid) \o << ".", "c", "h", "u", "n", "k" >>

\* format!("{}{:02}/{}", base_url, data_group, file_name)
ChunkUri(base_url, data_group, file_name) ==
    base_url \o ZeroPad(Digits(data_group, 10), 2) \o << "/" >> \o file_name

FileChunkOf(guid, chunk_size, hash, sha, data_group, base_url, file_name) ==
    [guid |-> guid, size |-> chunk_size, hash |-> hash, sha |-> sha,
     data_group |-> data_group, file_name |-> file_name,
     uri |-> ChunkUri(base_url, data_group, file_name)]

FileChunkNew(guid, chunk_size, hash, sha, data_group, base_url) ==
    FileChunkOf(guid, chunk_size, hash, sha, data_group, base_url,
                ChunkFileName(hash, guid))

\* The arguments of FileChunk::new: every data group a u8 holds, two GUIDs,
\* two rolling hashes and two base URLs.
FileChunkCalls ==
    { [fn |-> "FileChunk::new", guid |-> guid, size |-> 3, hash |-> hash,
       sha |-> << "0", "A" >>, data_group |-> data_group, base_url |-> base_url]
        : guid \in { [a |-> 1, b |-> 0, c |-> 171, d |-> 2147483647],
                     [a |-> 0, b |-> 16, c |-> 0, d |-> 0] },
          hash \in { << "0", "1", "E", "F" >>, << "A" >> },
          data_group \in 0..255,
          base_url \in { << "h", "/" >>, << >> } }

FileChunkInit ==
    /\ call \in FileChunkCalls
    /\ ret = [st |-> "none"]

\* FileChunk::new(guid, size, hash, sha, data_group, base_url)
CallFileChunkNew ==
    /\ call.fn = "FileChunk::new"
    /\ ret.st = "none"
    /\ ret' = [st |-> "ok",
               val |-> FileChunkNew(call.guid, call.size, call.hash, call.sha,
                                    call.data_group, call.base_url)]
    /\ UNCHANGED call

(***************************************************************************)
(* chunk.rs: download_chunk_result on a cache miss, from the fetched       *)
(* buffer to the decoded body, called on its own.                          *)
(***************************************************************************)
\* What follows the header in a fetched buffer: nothing, plain bytes, zlib
\* streams, and a zlib stream with a wrong checksum.
FetchedBodies ==
    { << >>, << 11, 12 >>, Deflate(<< >>), Deflate(<< 11, 12 >>), << 120, 11, 13 >> }

\* A chunk file with the given header_size field and flag, cut to a length.
Truncated(file, cut) == IF cut < Len(file) THEN SubSeq(file, 1, cut) ELSE file

FetchedBuffer(header_size, flag, body, cut) ==
    Truncated(Zeros(8) \o I32Bytes(header_size) \o Zeros(28) \o << flag >> \o body,
              cut)

\* The buffers HttpService::get returns: whole chunk files and cut ones,
\* header_size fields before, at, inside and beyond the end of the buffer
\* and negative, and the flags 0, 1 and 2.
FetchedBuffers ==
    { FetchedBuffer(header_size, flag, body, cut)
        : header_size \in {-1, 0, 12, 41, 42, 43, 45, 46, 300},
          flag \in {0, 1, 2},
          body \in FetchedBodies,
          cut \in {0, 8, 11, 12, 40, 41, 45} }

ChunkCodecInit ==
    /\ call \in { [fn |-> "download_chunk_result", data |-> b] : b \in FetchedBuffers }
    /\ ret = [st |-> "none"]

\* download_chunk_result from the fetched buffer to _result
CallDecodeChunk ==
    /\ call.fn = "download_chunk_result"
    /\ ret.st = "none"
    /\ ret' = DecodeChunk(call.data)
    /\ UNCHANGED call

(***************************************************************************)
(* lib.rs: EpicGamesClient. auth is <<>> for None and <<token>> for        *)
(* Some(AuthResponse); requests are the requests handed to the HTTP        *)
(* client, in order; log holds every call made and how it returned.        *)
(***************************************************************************)
VARIABLES auth, requests, log

clientVars == << auth, requests, log >>

\* EpicGamesClient::new()
ClientInit ==
    /\ auth = << >>
    /\ requests = << >>
    /\ log = << >>

ClientIdle == ClientInit

\* The access tokens the account service hands out.
Tokens == {"t1", "t2"}

\* How a request ends: a success status with a body that parses, or anything
\* else (a transport error, an error status, a body that does not parse).
Responses == {"ok", "err"}

\* Without the check of the stored auth.
RequiresAuthenticationAlways(a) == "ok"

\* fn requires_authentication(&self)
requires_authentication(a) == IF a = << >> THEN "err" ELSE "ok"

\* fn get_authentication_header(&self): unwrap of the stored auth.
get_authentication_header(a) ==
    IF a = << >> THEN [st |-> "panic", header |-> << >>]
    ELSE [st |-> "ok", header |-> << "bearer", a[1] >>]

Returned(op, st) == log' = Append(log, [op |-> op, st |-> st])

\* A request with the bearer header, sent once the header is built.
AuthorizedRequest(op, uri) ==
    IF requires_authentication(auth) # "ok"
    THEN Returned(op, "err") /\ UNCHANGED << auth, requests >>
    ELSE IF get_authentication_header(auth).st # "ok"
    THEN Returned(op, "panic") /\ UNCHANGED << auth, requests >>
    ELSE /\ requests' = Append(requests,
                               [uri |-> uri,
                                authorization |-> get_authentication_header(auth).header])
         /\ \E response \in Responses : Returned(op, response)
         /\ UNCHANGED auth

\* get_manifest_info_authenticated(url)
GetManifestInfoAuthenticated ==
    /\ Len(log) < MaxCalls
    /\ AuthorizedRequest("get_manifest_info_authenticated", "url")

\* get_manifest_info(url): todo!()
GetManifestInfo ==
    /\ Len(log) < MaxCalls
    /\ Returned("get_manifest_info", "panic")
    /\ UNCHANGED << auth, requests >>

\* get_exchange_code()
GetExchangeCode ==
    /\ Len(log) < MaxCalls
    /\ AuthorizedRequest("get_exchange_code", "/account/api/oauth/exchange")

\* self.set_authentication(self.authenticate(client_token, parameters).await?)
\* after the requests already sent by the call.
Authenticate(op, sent, grant_type) ==
    /\ requests' = Append(sent, [uri |-> "/account/api/oauth/token",
                                 authorization |-> << "basic", grant_type >>])
    /\ \/ /\ Returned(op, "err")
          /\ UNCHANGED auth
       \/ /\ \E token \in Tokens : auth' = << token >>
          /\ Returned(op, "ok")

\* authenticate_with_device(device, client_token)
AuthenticateWithDevice ==
    /\ Len(log) < MaxCalls
    /\ Authenticate("authenticate_with_device", requests, "device_auth")

ExchangeRequest ==
    [uri |-> "/account/api/oauth/exchange",
     authorization |-> get_authentication_header(auth).header]

\* authenticate_with_exchange(client_token)
AuthenticateWithExchange ==
    /\ Len(log) < MaxCalls
    /\ IF requires_authentication(auth) # "ok"
       THEN Returned("authenticate_with_exchange", "err")
                /\ UNCHANGED << auth, requests >>
       ELSE IF get_authentication_header(auth).st # "ok"
       THEN Returned("authenticate_with_exchange", "panic")
                /\ UNCHANGED << auth, requests >>
       ELSE \/ /\ requests' = Append(requests, ExchangeRequest)
               /\ Returned("authenticate_with_exchange", "err")
               /\ UNCHANGED auth
            \/ Authenticate("authenticate_with_exchange",
                            Append(requests, ExchangeRequest), "exchange_code")

\* set_authentication(auth)
SetAuthentication ==
    /\ Len(log) < MaxCalls
    /\ \E token \in Tokens : auth' = << token >>
    /\ Returned("set_authentication", "ok")
    /\ UNCHANGED requests

\* download_manifest_async(manifest, cache_dir): the cached file, or one
\* request without an Authorization header.
DownloadManifestAsync ==
    /\ Len(log) < MaxCalls
    /\ \/ /\ \E st \in Responses : Returned("download_manifest_async", st)
          /\ UNCHANGED requests
       \/ /\ requests' = Append(requests, [uri |-> "manifest.uri",
                                           authorization |-> << >>])
          /\ \E response \in Responses :
                 Returned("download_manifest_async", response)
    /\ UNCHANGED auth

ClientNext ==
    \/ GetManifestInfoAuthenticated
    \/ GetManifestInfo
    \/ GetExchangeCode
    \/ AuthenticateWithDevice
    \/ AuthenticateWithExchange
    \/ SetAuthentication
    \/ DownloadManifestAsync

vars == << saveVars, manifestVars, callVars, clientVars >>

\* The assembler: one FileManifest::save and its download tasks.
Init == SaveInit /\ ManifestIdle /\ CallIdle /\ ClientIdle

Next == SaveNext /\ UNCHANGED << manifestVars, callVars, clientVars >>

Spec == Init /\ [][Next]_vars

\* The steps of save itself, and the steps of the task spawned for part t.
SaveStep == SaveStart \/ SaveRecv \/ SaveReturn

TaskStep(t) ==
    /\ t \in Tasks
    /\ \/ TaskCheck(t)
       \/ TaskRead(t)
       \/ TaskFetch(t)
       \/ TaskCreate(t)
       \/ TaskWrite(t)
       \/ TaskSend(t)

\* The scheduling: save runs on, every spawned task is scheduled until it
\* has ended, and its fetch completes.
Scheduled ==
    /\ WF_vars(SaveStep /\ UNCHANGED << manifestVars, callVars, clientVars >>)
    /\ \A t \in 1..MaxParts :
           WF_vars(TaskStep(t) /\ UNCHANGED << manifestVars, callVars, clientVars >>)

\* The assembler, every task being scheduled.
SpecScheduled == Init /\ [][Next]_vars /\ Scheduled

\* The decoder: one Manifest::new.
InitManifest == ManifestInit /\ SaveIdle /\ CallIdle /\ ClientIdle

NextManifest == ManifestNext /\ UNCHANGED << saveVars, callVars, clientVars >>

SpecManifest == InitManifest /\ [][NextManifest]_vars

\* One call of read_fstring.
InitFString == FStringInit /\ SaveIdle /\ ManifestIdle /\ ClientIdle

NextFString == CallReadFString /\ UNCHANGED << saveVars, manifestVars, clientVars >>

SpecFString == InitFString /\ [][NextFString]_vars

\* One call of FileChunk::new.
InitFileChunk == FileChunkInit /\ SaveIdle /\ ManifestIdle /\ ClientIdle

NextFileChunk == CallFileChunkNew /\ UNCHANGED << saveVars, manifestVars, clientVars >>

SpecFileChunk == InitFileChunk /\ [][NextFileChunk]_vars

\* One decoding of a fetched chunk file.
InitChunkCodec == ChunkCodecInit /\ SaveIdle /\ ManifestIdle /\ ClientIdle

NextChunkCodec ==
    CallDecodeChunk /\ UNCHANGED << saveVars, manifestVars, clientVars >>

SpecChunkCodec == InitChunkCodec /\ [][NextChunkCodec]_vars

\* One EpicGamesClient and the calls made on it.
InitClient == ClientInit /\ SaveIdle /\ ManifestIdle /\ CallIdle

NextClient == ClientNext /\ UNCHANGED << saveVars, manifestVars, callVars >>

SpecClient == InitClient /\ [][NextClient]_vars

(***************************************************************************)
(* Properties of FileManifest::save.                                       *)
(***************************************************************************)
\* The bytes part i contributes: decoded_body[offset .. offset + size].
PartBytes(part) ==
    [k \in 1..part.size |-> DecodedBody(part.guid)[part.offset + k]]

\* Every part names a chunk of the chunk map and lies inside its decoded body.
PartsInRange(parts) ==
    \A i \in 1..Len(parts) :
        /\ parts[i].guid \in ChunkGuids
        /\ 0 <= parts[i].offset
        /\ 0 <= parts[i].size
        /\ parts[i].offset + parts[i].size <= Len(DecodedBody(parts[i].guid))

\* C1: for a file whose parts are all in range (and whose chunks can all be
\* fetched and decoded), the bytes save returns are the concatenation, in
\* part order, of decoded_body[offset .. offset + size].
C1_SaveReturnsConcatenation ==
    ( /\ savePc = "ok"
      /\ PartsInRange(chunk_parts)
      /\ \A g \in ChunkGuids : fetchOk[g] /\ DecodeChunk(ChunkFile(g)).st = "ok" )
    => result = Concat([i \in 1..Len(chunk_parts) |-> PartBytes(chunk_parts[i])])

\* C2: whenever save returns a byte vector, its length is the sum of the
\* part sizes, and that sum is the stored FileManifest.size.
C2_LengthIsSumOfSizes ==
    savePc = "ok" =>
        /\ Len(result) = SumSeq([i \in 1..Len(chunk_parts) |-> chunk_parts[i].size])
        /\ SumSeq([i \in 1..Len(chunk_parts) |-> chunk_parts[i].size]) = size

C2_Witness ==
    /\ savePc = "ok"
    /\ Len(chunk_parts) = 2
    /\ Len(result) = 3

\* Whether the task of a part of chunk g ends with a send, which the chunk,
\* the CDN and the cache as save starts decide, and no schedule does.
Delivers(g) ==
    /\ cache_dir # "missing"
    /\ \/ cache_dir = "ok" /\ cache0[g] # Absent
       \/ fetchOk[g] /\ DecodeChunk(ChunkFile(g)).st = "ok"

\* The bytes save returns, as a function of the file, the CDN and the cache
\* as save starts: the range of a part whose task fails stays zero.
ExpectedResult ==
    Concat([i \in 1..Len(chunk_parts) |->
               IF Delivers(chunk_parts[i].guid)
               THEN PartBytes(chunk_parts[i])
               ELSE Zeros(chunk_parts[i].size)])

RangesDisjoint ==
    \A i, j \in 1..Len(downloads) :
        i # j => \/ downloads[i].position + downloads[i].size <= downloads[j].position
                 \/ downloads[j].position + downloads[j].size <= downloads[i].position

\* A turn of the receive loop leaves every byte outside
\* output[position .. position + size] of the received download as it was.
RecvWritesOwnRange ==
    (savePc = "recv" /\ chan # <<>> /\ result' # result) =>
        LET d == Head(chan).download
        IN  /\ Len(result') = Len(result)
            /\ \A i \in 1..Len(result) :
                  (i <= d.position \/ i > d.position + d.size) => result'[i] = result[i]

\* C3: the bytes save returns are the same for every interleaving and
\* completion order of the download tasks: the ranges of distinct parts are
\* pairwise disjoint, each received result is copied into its own range
\* only, and the returned bytes are those the inputs alone determine.
C3_OrderIndependent ==
    /\ [](RangesDisjoint /\ (savePc = "ok" => result = ExpectedResult))
    /\ [][RecvWritesOwnRange]_vars

\* The second part has been copied into the output before the first.
C3_Witness ==
    /\ savePc = "recv"
    /\ Len(downloads) = 2
    /\ downloads[1].size > 0
    /\ downloads[2].size > 0
    /\ task[1].pc \notin {"done", "failed"}
    /\ result[downloads[2].position + 1] # 0

C5_SecondCallDoesNotFetch ==
    \A t1, t2 \in Tasks :
        ( /\ cache_dir # "none"
          /\ t1 \in task[t2].seenDone
          /\ downloads[t1].file_name = downloads[t2].file_name )
        => ~(task[t1].fetched /\ task[t2].fetched)

C5_Witness ==
    \E t1, t2 \in Tasks :
        /\ cache_dir # "none"
        /\ t1 \in task[t2].seenDone
        /\ downloads[t1].file_name = downloads[t2].file_name
        /\ task[t1].fetched
        /\ task[t2].pc = "done"

\* C6: a task that finds the cache file to exist when it checks takes the
\* cache path, sends exactly the bytes it reads from that file, and neither
\* fetches, nor decodes a chunk header, nor writes the cache.
C6_CacheHitIsVerbatim ==
    [][\A t \in Tasks :
          /\ (task[t].pc = "check" /\ task'[t].pc # "check" /\ CacheHit(t))
                => task'[t].via = "cache"
          /\ (task[t].pc = "read" /\ task'[t].pc # "read")
                => task'[t].body = cache[downloads[t].file_name]
          /\ task'[t].via = "cache"
                => /\ ~task'[t].fetched
                   /\ ~task'[t].wrote
                   /\ task'[t].pc \in {"read", "send", "done", "failed"}
          /\ (task[t].via = "cache" /\ task[t].pc = "send" /\ task'[t].pc = "done")
                => /\ chan' = Append(chan, [download |-> downloads[t],
                                            data |-> task[t].body])
                   /\ cache' = cache
      ]_vars

C6_Witness ==
    \E t \in Tasks :
        /\ task[t].via = "cache"
        /\ task[t].pc = "done"
        /\ task[t].body = DecodedBody(downloads[t].file_name)

\* C7: a task whose write of the cache file fails still delivers the body.
C7_WriteFailureStillDelivers ==
    savePc = "ok" => \A t \in Tasks : task[t].writeFailed => task[t].pc = "done"

\* C8: a cache file a task finds to exist and reads holds the complete
\* decoded body of its chunk.
C8_NoPartialCacheRead ==
    \A t \in Tasks :
        (task[t].via = "cache" /\ task[t].pc \in {"send", "done"})
        => task[t].body = DecodedBody(downloads[t].file_name)

(***************************************************************************)
(* Properties of Manifest::new.                                            *)
(***************************************************************************)
\* C9: for each of sections 1, 2 and 3, the header of the next section is
\* read at section_start + data_size of that section, whatever the body
\* decoder consumed.
C9_NextSectionAtDeclaredEnd ==
    \A k \in 1..3 :
        Len(sections) > k =>
            sections[k + 1].start_pos = sections[k].start_pos + sections[k].data_size

\* A decode in which the body decoder of section 1 read beyond the declared
\* end and that of section 2 stopped short of it.
C9_Witness ==
    /\ mpc = "done"
    /\ sections[1].body_end > sections[1].start_pos + sections[1].data_size
    /\ sections[2].body_end < sections[2].start_pos + sections[2].data_size
    /\ sections[2].start_pos > 0

\* The header fields of the container, as the input holds them.
HeaderSizeOf(d) == I32At(d, 4)

CompressedSizeOf(d) == I32At(d, 12)

StorageFlagsOf(d) == d[37]

\* C10: the inner payload is derived from exactly the bytes
\* [header_size, header_size + compressed_size) of the input, inflated for
\* storage flag 0x01 and unchanged for 0x00; and the same sections stored
\* uncompressed and compressed decode alike.
C10_PayloadIsDeclaredRange ==
    /\ (mpc \in {"meta", "chunks", "files", "custom", "done"}
            /\ StorageFlagsOf(data) \in {0, 1}
            /\ HeaderSizeOf(data) + CompressedSizeOf(data) <= Len(data))
        => payload =
              LET stored == Slice(data, HeaderSizeOf(data),
                                  HeaderSizeOf(data) + CompressedSizeOf(data))
              IN  IF StorageFlagsOf(data) = 1 THEN Inflate(stored).data ELSE stored
    /\ (mpc \in {"done", "err", "panic"} /\ params.storage_flags = 0
            /\ params.size_is = "length")
        => LET compressed == ManifestNew(EncManifest([params EXCEPT !.storage_flags = 1]))
           IN  /\ (mpc = "done") = (compressed.st = "ok")
               /\ mpc = "done" => manifest = compressed.manifest

\* C11: a storage flag other than 0x00 and 0x01 never yields a Manifest.
C11_OtherFlagsRejected ==
    mpc = "done" => StorageFlagsOf(data) \in {0, 1}

\* C12: an input whose first four bytes are not the magic is answered with
\* an Err value, not with a panic, and with no Manifest.
C12_BadMagicIsErr ==
    (mpc # "container" /\ I32At(data, 0) # MANIFEST_HEADER_MAGIC) => mpc = "err"

\* C13: in every Manifest returned, the guid of every chunk part of every
\* file is a key of the chunk map.
C13_PartsReferenceChunks ==
    mpc = "done" =>
        \A i \in 1..Len(manifest.file_manifests) :
            \A k \in 1..Len(manifest.file_manifests[i].chunk_parts) :
                manifest.file_manifests[i].chunk_parts[k].guid \in DOMAIN manifest.chunks

(***************************************************************************)
(* Properties of read_fstring.                                             *)
(***************************************************************************)
\* The length prefix at the cursor of the call.
PrefixOf(c) == I32At(c.d, c.pos)

\* C14: read_fstring with the length prefix L at the cursor: for L = 0 the
\* empty string and the cursor 4 further; for L > 0 with L bytes remaining
\* the first L - 1 of them and the cursor 4 + L further; for L < 0 no
\* string but an error value.
C14_ReadFString ==
    (call.fn = "read_fstring" /\ ret.st # "none") =>
        /\ PrefixOf(call) = 0 =>
               /\ ret.st = "ok"
               /\ ret.val = <<>>
               /\ ret.pos = call.pos + 4
        /\ (PrefixOf(call) > 0 /\ Len(call.d) - (call.pos + 4) >= PrefixOf(call)) =>
               /\ ret.st = "ok"
               /\ ret.val = SubSeq(call.d, call.pos + 5, call.pos + 4 + PrefixOf(call) - 1)
               /\ ret.pos = call.pos + 4 + PrefixOf(call)
        /\ PrefixOf(call) < 0 => ret.st = "err"

(***************************************************************************)
(* Properties of FileChunk::new.                                           *)
(***************************************************************************)
\* The value of a text of decimal digits; -1 when a character is no digit.
RECURSIVE DecimalValue(_)
DecimalValue(s) ==
    IF s = << >> THEN 0
    ELSE IF \A n \in 0..9 : HexDigit(n) # s[Len(s)] THEN -1
    ELSE IF DecimalValue(SubSeq(s, 1, Len(s) - 1)) < 0 THEN -1
    ELSE 10 * DecimalValue(SubSeq(s, 1, Len(s) - 1))
            + (CHOOSE n \in 0..9 : HexDigit(n) = s[Len(s)])

\* The text a word of a GUID has in the file name: eight hex digits.
GuidHex(guid) ==
    LET word(n) == [i \in 1..8 |-> HexDigit((n \div (16 ^ (8 - i))) % 16)]
    IN  word(guid.a) \o word(guid.b) \o word(guid.c) \o word(guid.d)

\* What is left of the uri between base_url and "/" + file_name.
GroupText(c, chunk) ==
    SubSeq(chunk.uri, Len(c.base_url) + 1,
           Len(chunk.uri) - Len(chunk.file_name) - 1)

\* file_name and uri are composed as stated, dd being the text GroupText.
Composed(c, chunk) ==
    /\ chunk.file_name
          = c.hash \o << "_" >> \o GuidHex(c.guid) \o << ".", "c", "h", "u", "n", "k" >>
    /\ chunk.uri
          = c.base_url \o GroupText(c, chunk) \o << "/" >> \o chunk.file_name
    /\ DecimalValue(GroupText(c, chunk)) = c.data_group

\* C15 as stated: for every data_group in 0..=255 the descriptor has
\* file_name = hash + "_" + guid_hex + ".chunk" and
\* uri = base_url + dd + "/" + file_name, dd being exactly two decimal digits.
C15_TwoDigitsAlways ==
    (call.fn = "FileChunk::new" /\ ret.st = "ok") =>
        /\ Composed(call, ret.val)
        /\ Len(GroupText(call, ret.val)) = 2

\* C15, amended: file_name and uri are composed as stated, and dd is the
\* decimal form of data_group padded with zeros to at least two digits: two
\* digits for 0..=99, three digits for 100..=255.
C15_ZeroPaddedToTwo ==
    (call.fn = "FileChunk::new" /\ ret.st = "ok") =>
        /\ Composed(call, ret.val)
        /\ Len(GroupText(call, ret.val)) = IF call.data_group < 100 THEN 2 ELSE 3

\* A descriptor of data group 7 has been built: its uri holds "07".
C15_Witness ==
    /\ call.fn = "FileChunk::new"
    /\ ret.st = "ok"
    /\ call.data_group = 7
    /\ GroupText(call, ret.val) = << "0", "7" >>

(***************************************************************************)
(* Properties of EpicGamesClient.                                          *)
(***************************************************************************)
\* No authenticate_with_device, authenticate_with_exchange or
\* set_authentication of the calls made so far has succeeded.
NoneSucceeded(calls) ==
    \A i \in 1..Len(calls) :
        calls[i].st = "ok" =>
            calls[i].op \notin {"authenticate_with_device",
                                "authenticate_with_exchange",
                                "set_authentication"}

\* The call made by the step.
ThisCall == log'[Len(log')]

UnauthenticatedIsErr ==
    /\ (NoneSucceeded(log)
           /\ ThisCall.op \in {"get_manifest_info_authenticated", "get_exchange_code"})
          => (ThisCall.st = "err" /\ requests' = requests)
    /\ (NoneSucceeded(log) /\ ThisCall.op = "authenticate_with_exchange")
          => ThisCall.st = "err"
    /\ (ThisCall.op \in {"authenticate_with_device", "authenticate_with_exchange"}
           /\ ThisCall.st # "ok")
          => auth' = auth

\* C16: as long as no authenticate_with_device, authenticate_with_exchange
\* or set_authentication call has succeeded, get_manifest_info_authenticated
\* and get_exchange_code return Err without sending a request and
\* authenticate_with_exchange returns Err; and an authenticate_* call that
\* fails leaves the stored auth as it was.
C16_UnauthenticatedIsErr ==
    [][Len(log') = Len(log) + 1 => UnauthenticatedIsErr]_vars

\* After a failed authenticate_with_device, which sent its request, a
\* get_exchange_code has returned Err and nothing more was sent; and on
\* another client a failed authenticate_with_exchange follows a
\* set_authentication and the auth set is still stored.
C16_Witness ==
    \/ /\ Len(log) = 2
       /\ log[1] = [op |-> "authenticate_with_device", st |-> "err"]
       /\ log[2] = [op |-> "get_exchange_code", st |-> "err"]
       /\ Len(requests) = 1
       /\ auth = << >>
    \/ /\ Len(log) = 2
       /\ log[1] = [op |-> "set_authentication", st |-> "ok"]
       /\ log[2] = [op |-> "authenticate_with_exchange", st |-> "err"]
       /\ Len(requests) = 2
       /\ auth # << >>

(***************************************************************************)
(* Properties of download_chunk_result on a cache miss.                    *)
(***************************************************************************)
\* B[header_size ..]
BodyBytes(b) == SubSeq(b, I32At(b, 8) + 1, Len(b))

\* The buffer holds the field at 8..12 and the flag at 40, and header_size
\* is within [0, len(B)].
WellFormedBuffer(b) ==
    /\ Len(b) >= 41
    /\ I32At(b, 8) >= 0
    /\ I32At(b, 8) <= Len(b)

BodyAsStated(b, r) ==
    IF ~WellFormedBuffer(b) THEN r.st = "err"
    ELSE IF b[41] # 1 THEN r.st = "ok" /\ r.body = BodyBytes(b)
    ELSE Inflate(BodyBytes(b)).ok =>
             (r.st = "ok" /\ r.body = Inflate(BodyBytes(b)).data)

\* C17: the body is inflate(B[header_size ..]) when the flag at B[40] is 1
\* and B[header_size ..] unchanged otherwise, header_size being the
\* little-endian i32 at B[8..12]; a buffer too short for these fields, or
\* with header_size outside [0, len(B)], gives an error and no body.
C17_BodyFromFetchedBuffer ==
    (call.fn = "download_chunk_result" /\ ret.st # "none") =>
        BodyAsStated(call.data, ret)

(***************************************************************************)
(* Properties of the chunk table and the chunk join of Manifest::new.      *)
(***************************************************************************)
\* The last row of the chunk table that carries the GUID g.
LastRow(rows, g) ==
    CHOOSE i \in 1..Len(rows) :
        /\ GuidBytes(rows[i]) = g
        /\ \A j \in 1..Len(rows) : GuidBytes(rows[j]) = g => j <= i

\* The descriptor and the four maps hold the values of row i for g.
HoldsRow(m, g, i) ==
    /\ m.chunks[g].hash = HexU64(RowHash(i))
    /\ m.chunks[g].sha = HexUpper(RowSha(i))
    /\ m.chunks[g].data_group = RowGroup(i)
    /\ m.chunks[g].size = RowFileSize(i)
    /\ m.tables.chunk_hashes[g] = HexU64(RowHash(i))
    /\ m.tables.chunk_shas[g] = HexUpper(RowSha(i))
    /\ m.tables.data_groups[g] = RowGroup(i)
    /\ m.tables.chunk_filesizes[g] = RowFileSize(i)

\* C18: in every Manifest returned, chunk_hashes, chunk_shas, data_groups,
\* chunk_filesizes and the chunk descriptor map have the same keys, and a
\* GUID the chunk table repeats has, for all four attributes, the values of
\* the last row that carries it.
C18_SameKeysLastRowWins ==
    mpc = "done" =>
        /\ DOMAIN manifest.tables.chunk_hashes = DOMAIN manifest.chunks
        /\ DOMAIN manifest.tables.chunk_shas = DOMAIN manifest.chunks
        /\ DOMAIN manifest.tables.data_groups = DOMAIN manifest.chunks
        /\ DOMAIN manifest.tables.chunk_filesizes = DOMAIN manifest.chunks
        /\ \A g \in DOMAIN manifest.chunks :
               HoldsRow(manifest, g, LastRow(params.chunks.rows, g))

\* A Manifest was returned for a chunk table whose two rows carry the same
\* GUID: the one descriptor has the data group of the second row.
C18_Witness ==
    /\ mpc = "done"
    /\ params.chunks.rows = <<1, 1>>
    /\ DOMAIN manifest.chunks = {GuidBytes(1)}
    /\ manifest.chunks[GuidBytes(1)].data_group = RowGroup(2)

(***************************************************************************)
(* Termination of FileManifest::save.                                      *)
(***************************************************************************)
\* Every task has sent its result or has terminated without one.
EveryTaskEnded == \A t \in Tasks : task[t].pc \in {"done", "failed"}

\* C19: every task being scheduled, save eventually returns; the receive
\* loop ends exactly when every task has sent its result or terminated and
\* every result sent was received, and save does not return while a task
\* that will still send is outstanding. Stated for the files whose parts
\* name chunks of the chunk map and lie inside their bodies.
C19_SaveEventuallyReturns ==
    /\ PartsInRange(chunk_parts) => <>(savePc = "ok")
    /\ [](savePc = "ok" => (EveryTaskEnded /\ chan = <<>>))
    /\ (savePc = "recv" /\ EveryTaskEnded /\ chan = <<>>) ~> (savePc = "ok")

(***************************************************************************)
(* Fetches within one FileManifest::save.                                  *)
(***************************************************************************)
\* C20: within one save with a cache directory configured (and existing),
\* of the tasks of several parts of one chunk that is not cached as save
\* starts and that the service delivers, at most one calls the byte-fetch
\* service for the chunk's uri.
C20_FetchedAtMostOnce ==
    \A t1, t2 \in Tasks :
        ( /\ t1 # t2
          /\ cache_dir = "ok"
          /\ downloads[t1].uri = downloads[t2].uri
          /\ cache0[downloads[t1].file_name] = Absent
          /\ fetchOk[downloads[t1].uri] )
        => ~(task[t1].fetched /\ task[t2].fetched)

====
